---- MODULE Spec2Model ----
(***************************************************************************)
(* A model of the Overseerr Telegram bot (bot.py, overseerr_client.py,     *)
(* config.py).  One update is handled at a time (main() builds the         *)
(* Application without concurrent updates), so a handler runs from its     *)
(* first line to its return before the next update is dispatched.  A       *)
(* handler is an operator from the update and the behaviour of the         *)
(* collaborators during the turn (the upstream HTTP service, the chat      *)
(* platform) to the ordered list of effects it produces.                   *)
(*                                                                         *)
(* Python strings that the code inspects character by character are        *)
(* sequences of one-character strings; JSON values are tagged records.     *)
(*                                                                         *)
(* The upstream may answer any call with an error status.  The chat        *)
(* platform may refuse a photo (the code then falls back to text) and may  *)
(* refuse the edit that removes a message's buttons (the call raises);     *)
(* sending a text message and acknowledging a tap succeed.                 *)
(***************************************************************************)
EXTENDS Integers, Sequences, FiniteSets, TLC

(***************************************************************************)
(* Bounds of the model.                                                    *)
(***************************************************************************)
\* longest result list the upstream returns for a search or recommendations
MaxResults == 11
\* longest result list drawn with failing enrichment calls
MaxShort == 2

(***************************************************************************)
(* JSON values and the Python operations the code applies to them.         *)
(***************************************************************************)
JNull == [t |-> "null"]
JInt(n) == [t |-> "int", v |-> n]
JStr(s) == [t |-> "str", v |-> s]
JList(s) == [t |-> "list", v |-> s]
JObj(r) == [t |-> "obj", v |-> r]

\* an optional key of an object literal
Opt(present, k, val) == IF present THEN k :> val ELSE <<>>

\* isinstance(x, dict) / isinstance(x, str) / isinstance(x, int)
IsDict(j) == j.t = "obj"
IsStr(j) == j.t = "str"
IsInt(j) == j.t = "int"

\* the element of a singleton: The({e(x) : x \in {v}}) is e with x bound to
\* the value of v, a local variable that is assigned once
The(S) == CHOOSE x \in S : TRUE

\* Python truth value: None, 0, "", [] and {} are false
Truthy(j) ==
    CASE j.t = "null" -> FALSE
      [] j.t = "int" -> j.v # 0
      [] j.t = "str" -> j.v # <<>>
      [] j.t = "list" -> j.v # <<>>
      [] j.t = "obj" -> DOMAIN j.v # {}

\* a or b
PyOr(a, b) == IF Truthy(a) THEN a ELSE b

\* d.get(k) on a dict: the value, or None when the key is absent
Get(d, k) == IF k \in DOMAIN d.v THEN d.v[k] ELSE JNull

(***************************************************************************)
(* Strings as sequences of characters.                                     *)
(***************************************************************************)
Digits == <<"0", "1", "2", "3", "4", "5", "6", "7", "8", "9">>
DigitSet == {Digits[i] : i \in 1..10}
DigitVal(c) == (CHOOSE i \in 1..10 : Digits[i] = c) - 1
IsSpace(c) == c \in {" ", "\t", "\n"}

RECURSIVE LStrip(_)
LStrip(s) == IF s # <<>> /\ IsSpace(Head(s)) THEN LStrip(Tail(s)) ELSE s

RECURSIVE RStrip(_)
RStrip(s) ==
    IF s # <<>> /\ IsSpace(s[Len(s)]) THEN RStrip(SubSeq(s, 1, Len(s) - 1)) ELSE s

\* str.strip()
Strip(s) == RStrip(LStrip(s))

\* str.startswith(p)
StartsWith(s, p) == Len(s) >= Len(p) /\ SubSeq(s, 1, Len(p)) = p

\* index of the first occurrence of character c in s, 0 when there is none
RECURSIVE FindFrom(_, _, _)
FindFrom(s, c, i) ==
    IF i > Len(s) THEN 0 ELSE IF s[i] = c THEN i ELSE FindFrom(s, c, i + 1)

\* str.split(sep, maxsplit) for a one-character separator
RECURSIVE Split(_, _, _)
Split(s, sep, maxsplit) ==
    LET i == FindFrom(s, sep, 1)
    IN  IF maxsplit = 0 \/ i = 0
        THEN <<s>>
        ELSE <<SubSeq(s, 1, i - 1)>> \o Split(SubSeq(s, i + 1, Len(s)), sep, maxsplit - 1)

\* value of a non-empty sequence of decimal digits
RECURSIVE DigitsVal(_)
DigitsVal(s) ==
    IF s = <<>> THEN 0 ELSE 10 * DigitsVal(SubSeq(s, 1, Len(s) - 1)) + DigitVal(s[Len(s)])

\* int(s): surrounding whitespace and one sign are accepted, then decimal
\* digits; anything else raises ValueError (ok = FALSE)
ParseInt(s) ==
    LET body == Strip(s)
        signed == body # <<>> /\ Head(body) \in {"+", "-"}
        digits == IF signed THEN Tail(body) ELSE body
        valid == digits # <<>> /\ \A i \in 1..Len(digits) : digits[i] \in DigitSet
    IN  IF ~valid
        THEN [ok |-> FALSE, val |-> 0]
        ELSE [ok |-> TRUE,
              val |-> IF signed /\ Head(body) = "-" THEN 0 - DigitsVal(digits)
                      ELSE DigitsVal(digits)]

\* str(n) of an integer
RECURSIVE NatStr(_)
NatStr(n) == IF n < 10 THEN <<Digits[n + 1]>> ELSE NatStr(n \div 10) \o <<Digits[(n % 10) + 1]>>
IntStr(n) == IF n < 0 THEN <<"-">> \o NatStr(0 - n) ELSE NatStr(n)

NoneStr == <<"N", "o", "n", "e">>

\* str(x) of a JSON scalar
PyStr(j) ==
    CASE j.t = "null" -> NoneStr
      [] j.t = "int" -> IntStr(j.v)
      [] j.t = "str" -> j.v
      [] OTHER -> <<"?">>

\* s[:n]
Prefix(s, n) == SubSeq(s, 1, IF Len(s) < n THEN Len(s) ELSE n)

\* the characters of s as one TLA+ string (for the text of a message)
RECURSIVE Join(_)
Join(s) == IF s = <<>> THEN "" ELSE Head(s) \o Join(Tail(s))

LowerLetters ==
    <<"a", "b", "c", "d", "e", "f", "g", "h", "i", "j", "k", "l", "m",
      "n", "o", "p", "q", "r", "s", "t", "u", "v", "w", "x", "y", "z">>
UpperLetters ==
    <<"A", "B", "C", "D", "E", "F", "G", "H", "I", "J", "K", "L", "M",
      "N", "O", "P", "Q", "R", "S", "T", "U", "V", "W", "X", "Y", "Z">>
UpperChar(c) ==
    IF \E i \in 1..26 : LowerLetters[i] = c
    THEN UpperLetters[CHOOSE i \in 1..26 : LowerLetters[i] = c]
    ELSE c
\* str.upper()
Upper(s) == [i \in 1..Len(s) |-> UpperChar(s[i])]

MOVIE == <<"m", "o", "v", "i", "e">>
TV == <<"t", "v">>
PERSON == <<"p", "e", "r", "s", "o", "n">>
AVAILABLE == <<"A", "V", "A", "I", "L", "A", "B", "L", "E">>
UNTITLED == <<"(", "u", "n", "t", "i", "t", "l", "e", "d", ")">>

(***************************************************************************)
(* bot.py: shaping of catalog items into captions and keyboards.           *)
(***************************************************************************)
\* item.get("mediaType") or item.get("media_type") or "movie"
item_media_type(item) ==
    PyOr(PyOr(Get(item, "mediaType"), Get(item, "media_type")), JStr(MOVIE))

_extract_title_year_type(item) ==
    LET media_type == item_media_type(item)
        title == PyOr(PyOr(Get(item, "title"), Get(item, "name")), JStr(UNTITLED))
        date == PyOr(PyOr(PyOr(Get(item, "releaseDate"), Get(item, "firstAirDate")),
                          Get(item, "release_date")),
                     Get(item, "first_air_date"))
        year == IF IsStr(date) /\ Len(date.v) >= 4 THEN JStr(Prefix(date.v, 4)) ELSE JNull
    IN  [title |-> title,
         year |-> year,
         type_label |-> IF IsStr(media_type) /\ media_type.v = MOVIE
                        THEN "movie" ELSE "tv series"]

\* availability with the status string compared as it is
_is_available_exact(item) ==
    LET media_info == PyOr(Get(item, "mediaInfo"), JObj(<<>>))
        status == Get(media_info, "status")
    IN  IF IsStr(status) THEN status.v = AVAILABLE
        ELSE IF IsInt(status) THEN status.v >= 4
        ELSE FALSE

_is_available(item) ==
    LET media_info == PyOr(Get(item, "mediaInfo"), JObj(<<>>))
        status == Get(media_info, "status")
    IN  IF IsStr(status) THEN Upper(status.v) = AVAILABLE
        ELSE IF IsInt(status) THEN status.v >= 4
        ELSE FALSE

\* the caption as its list of lines ("\n".join(lines))
_build_caption(item) ==
    LET tyt == _extract_title_year_type(item)
        available == _is_available(item)
        status_text == IF available THEN "in library" ELSE "not in library"
        status_icon == IF available THEN "[check]" ELSE "[cross]"
    IN  <<"<b>" \o Join(PyStr(tyt.title)) \o "</b> - (" \o tyt.type_label \o ")">>
        \o (IF Truthy(tyt.year) THEN <<"Year - " \o Join(tyt.year.v)>> ELSE <<>>)
        \o <<"">>
        \o <<status_icon \o " Status: " \o status_text>>

HTTP == <<"h", "t", "t", "p">>
NAN == <<"n", "a", "n">>
YOUTUBE == <<"Y", "o", "u", "T", "u", "b", "e">>
TRAILER == <<"T", "r", "a", "i", "l", "e", "r">>
TEASER == <<"T", "e", "a", "s", "e", "r">>

\* isinstance(x, (int, float, str))
IsScalar(j) == IsInt(j) \/ IsStr(j)

\* s.rstrip("/")
RECURSIVE RStripSlash(_)
RStripSlash(s) ==
    IF s # <<>> /\ s[Len(s)] = "/" THEN RStripSlash(SubSeq(s, 1, Len(s) - 1)) ELSE s

\* s.split("/")[-1]
RECURSIVE LastSegment(_)
LastSegment(s) ==
    LET i == FindFrom(s, "/", 1)
    IN  IF i = 0 THEN s ELSE LastSegment(SubSeq(s, i + 1, Len(s)))

\* str(a) or str(b) or str(c): the first non-empty string
StrOr3(a, b, c) == PyOr(PyOr(JStr(PyStr(a)), JStr(PyStr(b))), JStr(PyStr(c)))

\* ratings.get("imdb") or ratings.get("IMDb") or ratings.get("imdbRating")
imdb_block_of(ratings) ==
    IF IsDict(ratings)
    THEN PyOr(PyOr(Get(ratings, "imdb"), Get(ratings, "IMDb")), Get(ratings, "imdbRating"))
    ELSE JNull

\* the rating read from the IMDb block: a dict's value, rating or score, or
\* the scalar itself
imdb_rating_of(imdb_block) ==
    IF IsDict(imdb_block)
    THEN StrOr3(Get(imdb_block, "value"), Get(imdb_block, "rating"), Get(imdb_block, "score"))
    ELSE IF IsScalar(imdb_block) THEN JStr(PyStr(imdb_block))
    ELSE JNull

\* the IMDb id: the external id, else the last segment of the block's url
imdb_id_of(imdb_id, imdb_block) ==
    IF IsDict(imdb_block) /\ ~Truthy(imdb_id)
       /\ IsStr(Get(imdb_block, "url")) /\ StartsWith(Get(imdb_block, "url").v, HTTP)
    THEN JStr(LastSegment(RStripSlash(Get(imdb_block, "url").v)))
    ELSE imdb_id

\* ratings.get("rottenTomatoes") or ratings.get("rotten_tomatoes") or
\* ratings.get("rotten")
rt_block_of(ratings) ==
    IF IsDict(ratings)
    THEN PyOr(PyOr(Get(ratings, "rottenTomatoes"), Get(ratings, "rotten_tomatoes")),
              Get(ratings, "rotten"))
    ELSE JNull

\* str(b.get("score") or b.get("rating") or b.get("value")) of a nested block
rt_score(block) ==
    JStr(PyStr(PyOr(PyOr(Get(block, "score"), Get(block, "rating")), Get(block, "value"))))

\* rt_block.get(k) when it is a dict, else None
rt_nested(rt_block, k) ==
    IF IsDict(rt_block) /\ IsDict(Get(rt_block, k)) THEN Get(rt_block, k) ELSE JNull

\* the Rotten Tomatoes values after "if critics:" and "if audience:"
rt_blocks(critics, audience) ==
    [tomato |-> IF Truthy(critics) THEN rt_score(critics) ELSE JNull,
     popcorn |-> IF Truthy(audience) THEN rt_score(audience) ELSE JNull,
     url |-> IF Truthy(critics) /\ Truthy(Get(critics, "url")) THEN Get(critics, "url")
             ELSE IF Truthy(audience) THEN Get(audience, "url")
             ELSE IF Truthy(critics) THEN Get(critics, "url")
             ELSE JNull]

\* the flat fallbacks inside the rottenTomatoes block
rt_fallbacks(rt_block, rt) ==
    IF ~IsDict(rt_block) THEN rt
    ELSE [tomato |-> IF ~Truthy(rt.tomato)
                     THEN StrOr3(Get(rt_block, "tomatometer"), Get(rt_block, "tomatoMeter"),
                                 Get(rt_block, "criticsScore"))
                     ELSE rt.tomato,
          popcorn |-> IF ~Truthy(rt.popcorn)
                      THEN PyOr(JStr(PyStr(Get(rt_block, "audienceScore"))),
                                JStr(PyStr(Get(rt_block, "popcornMeter"))))
                      ELSE rt.popcorn,
          url |-> IF ~Truthy(rt.url) THEN Get(rt_block, "url") ELSE rt.url]

\* an extraction that does not know the flat object
rt_flat_ignored(ratings, rt) == rt

\* the flat object of the ratings endpoint
rt_flat(ratings, rt) ==
    IF IsDict(ratings) /\ ~(Truthy(rt.tomato) \/ Truthy(rt.popcorn))
       /\ ("criticsScore" \in DOMAIN ratings.v \/ "audienceScore" \in DOMAIN ratings.v)
    THEN [tomato |-> IF Get(ratings, "criticsScore").t # "null"
                     THEN JStr(PyStr(Get(ratings, "criticsScore"))) ELSE rt.tomato,
          popcorn |-> IF Get(ratings, "audienceScore").t # "null"
                      THEN JStr(PyStr(Get(ratings, "audienceScore"))) ELSE rt.popcorn,
          url |-> IF ~Truthy(rt.url) /\ IsStr(Get(ratings, "url"))
                  THEN Get(ratings, "url") ELSE rt.url]
    ELSE rt

\* the returned dict, from the values of the local variables
rates_of(imdb_id, imdb_rating, rt) ==
    [imdb_id |-> imdb_id,
     imdb_rating |-> imdb_rating,
     imdb_url |-> IF Truthy(imdb_id)
                  THEN JStr(<<"https://www.imdb.com/title/">> \o PyStr(imdb_id))
                  ELSE JNull,
     rt_tomato |-> rt.tomato,
     rt_popcorn |-> rt.popcorn,
     rt_url |-> rt.url]

_extract_imdb_and_rt(details) ==
    The({rates_of(imdb_id_of(PyOr(Get(ext, "imdbId"), Get(ext, "imdb_id")), imdb_block),
                  imdb_rating_of(imdb_block),
                  The({rt_flat(ratings, rt) :
                        rt \in {The({rt_fallbacks(rt_block, nested) :
                                     nested \in {rt_blocks(rt_nested(rt_block, "critics"),
                                                           rt_nested(rt_block, "audience"))}})}})) :
            ext \in {PyOr(PyOr(Get(details, "externalIds"), Get(details, "external_ids")),
                          JObj(<<>>))},
            ratings \in {PyOr(Get(details, "ratings"), JObj(<<>>))},
            imdb_block \in {imdb_block_of(PyOr(Get(details, "ratings"), JObj(<<>>)))},
            rt_block \in {rt_block_of(PyOr(Get(details, "ratings"), JObj(<<>>)))}})

\* v.get(k) == s for a string s
GetIs(v, k, s) == IsStr(Get(v, k)) /\ Get(v, k).v = s

\* the least index of the set, 0 when it is empty
FirstIndex(indices) ==
    IF indices = {} THEN 0 ELSE CHOOSE i \in indices : \A j \in indices : i <= j

\* the first YouTube video of type Trailer, else Teaser, else any, among
\* the videos of vs at the indices usable; 0 when there is none
PreferredVideo(vs, usable) ==
    LET OfType(ty) == FirstIndex({i \in usable : GetIs(vs[i], "site", YOUTUBE)
                                                 /\ GetIs(vs[i], "type", ty)})
        AnySite == FirstIndex({i \in usable : GetIs(vs[i], "site", YOUTUBE)})
    IN  IF OfType(TRAILER) # 0 THEN OfType(TRAILER)
        ELSE IF OfType(TEASER) # 0 THEN OfType(TEASER)
        ELSE AnySite

_extract_trailer_url(details) ==
    LET related == Get(details, "relatedVideos")
        ri == IF related.t = "list"
              THEN PreferredVideo(related.v,
                                  {i \in 1..Len(related.v) : IsStr(Get(related.v[i], "url"))})
              ELSE 0
        videos == PyOr(Get(details, "videos"), JObj(<<>>))
        results == IF IsDict(videos) THEN Get(videos, "results") ELSE JNull
        vi == IF results.t = "list"
              THEN PreferredVideo(results.v,
                                  {i \in 1..Len(results.v) : Truthy(Get(results.v[i], "key"))})
              ELSE 0
    IN  IF ri # 0 THEN Get(related.v[ri], "url")
        ELSE IF vi # 0 THEN JStr(<<"https://youtu.be/">> \o PyStr(Get(results.v[vi], "key")))
        ELSE JNull

\* rates[k] and rates[k] not in ("None", "nan")
Shown(r) == Truthy(r) /\ r.v \notin {NoneStr, NAN}

\* an enriched caption with the trailer block ahead of the rating lines
_append_trailer_first(base_caption, details) ==
    The({
    LET label == IF ~Shown(rates.imdb_rating) THEN "IMDb"
                 ELSE "IMDb: " \o Join(rates.imdb_rating.v)
        rt_url == IF Truthy(rates.rt_url) THEN Join(PyStr(rates.rt_url))
                  ELSE "https://www.rottentomatoes.com/"
        trailer == _extract_trailer_url(details)
    IN  base_caption
        \o (IF Truthy(trailer)
            THEN <<"", "<a href=\"" \o Join(PyStr(trailer)) \o "\">[clapper] Trailer</a>">>
            ELSE <<>>)
        \o <<"">>
        \o (IF Truthy(rates.imdb_url)
            THEN <<"<a href=\"" \o Join(rates.imdb_url.v) \o "\">" \o label \o "</a>">>
            ELSE <<>>)
        \o (IF Shown(rates.rt_tomato)
            THEN <<"<a href=\"" \o rt_url \o "\">[tomato] Tomatometer : "
                   \o Join(rates.rt_tomato.v) \o "%</a>">>
            ELSE <<>>)
        \o (IF Shown(rates.rt_popcorn)
            THEN <<"<a href=\"" \o rt_url \o "\">[popcorn] Popcorn: "
                   \o Join(rates.rt_popcorn.v) \o "%</a>">>
            ELSE <<>>)
    : rates \in {_extract_imdb_and_rt(details)}})

\* the enriched caption as its list of lines ("\n".join(parts)); the base
\* caption is the first part
_append_enrichment_to_caption(base_caption, details) ==
    The({
    LET label == IF ~Shown(rates.imdb_rating) THEN "IMDb"
                 ELSE "IMDb: " \o Join(rates.imdb_rating.v)
        rt_url == IF Truthy(rates.rt_url) THEN Join(PyStr(rates.rt_url))
                  ELSE "https://www.rottentomatoes.com/"
        trailer == _extract_trailer_url(details)
    IN  base_caption
        \o <<"">>
        \o (IF Truthy(rates.imdb_url)
            THEN <<"<a href=\"" \o Join(rates.imdb_url.v) \o "\">" \o label \o "</a>">>
            ELSE <<>>)
        \o (IF Shown(rates.rt_tomato)
            THEN <<"<a href=\"" \o rt_url \o "\">[tomato] Tomatometer : "
                   \o Join(rates.rt_tomato.v) \o "%</a>">>
            ELSE <<>>)
        \o (IF Shown(rates.rt_popcorn)
            THEN <<"<a href=\"" \o rt_url \o "\">[popcorn] Popcorn: "
                   \o Join(rates.rt_popcorn.v) \o "%</a>">>
            ELSE <<>>)
        \o (IF Truthy(trailer)
            THEN <<"", "<a href=\"" \o Join(PyStr(trailer)) \o "\">[clapper] Trailer</a>">>
            ELSE <<>>)
    : rates \in {_extract_imdb_and_rt(details)}})

REQ == <<"r", "e", "q", "|">>
REC == <<"r", "e", "c", "|">>

\* reply_markup=None
NoMarkup == [rows |-> <<>>]
\* InlineKeyboardMarkup(rows)
InlineKeyboardMarkup(rows) == [rows |-> rows]
InlineKeyboardButton(text, callback_data) == [text |-> text, callback_data |-> callback_data]

\* a keyboard built without the test of the id
_build_keyboard_without_id(item) ==
    LET media_type == item_media_type(item)
        media_id == Get(item, "id")
        token == PyStr(media_type) \o <<"|">> \o PyStr(media_id)
        buttons ==
            (IF ~_is_available(item)
             THEN <<InlineKeyboardButton("Download", REQ \o token)>> ELSE <<>>)
            \o (IF IsStr(media_type) /\ media_type.v \in {TV, MOVIE}
                THEN <<InlineKeyboardButton("Recommendations", REC \o token)>> ELSE <<>>)
    IN  IF buttons = <<>> THEN NoMarkup
        ELSE InlineKeyboardMarkup(<<buttons>>)

_build_keyboard(item) ==
    LET media_type == item_media_type(item)
        media_id == Get(item, "id")
        token == PyStr(media_type) \o <<"|">> \o PyStr(media_id)
        buttons ==
            (IF ~_is_available(item)
             THEN <<InlineKeyboardButton("Download", REQ \o token)>> ELSE <<>>)
            \o (IF IsStr(media_type) /\ media_type.v \in {TV, MOVIE}
                THEN <<InlineKeyboardButton("Recommendations", REC \o token)>> ELSE <<>>)
    IN  IF media_id.t = "null" THEN NoMarkup
        ELSE IF buttons = <<>> THEN NoMarkup
        ELSE InlineKeyboardMarkup(<<buttons>>)

(***************************************************************************)
(* Effects of a turn, in the order the handler produces them.              *)
(***************************************************************************)
\* one HTTP request sent to the upstream service
Http(op, media_type, id, q) ==
    [e |-> "http", op |-> op, media_type |-> media_type, id |-> id, q |-> q]
\* one call of the chat platform; ok = FALSE when the platform raised
Tg(e, ok, text, markup, photo) ==
    [e |-> e, ok |-> ok, text |-> text, markup |-> markup, photo |-> photo]
answer == Tg("answer", TRUE, <<>>, NoMarkup, "")
reply_text(text, markup) == Tg("reply_text", TRUE, text, markup, "")
reply_photo(ok, photo, caption, markup) == Tg("reply_photo", ok, caption, markup, photo)
edit_message_reply_markup(ok) == Tg("edit_message_reply_markup", ok, <<>>, NoMarkup, "")

(***************************************************************************)
(* overseerr_client.py.  A call returns what it sent (http), whether it    *)
(* raised, the text of the exception and the value returned.  The          *)
(* upstream's answers during a turn are the record up.                     *)
(***************************************************************************)
\* str(e) of the error raise_for_status() raises
ErrText(resp) == "HTTP " \o Join(IntStr(resp.status))

Raised(http, err) == [http |-> http, raised |-> TRUE, err |-> err, value |-> JNull]
Returned(http, value) == [http |-> http, raised |-> FALSE, err |-> "", value |-> value]

\* resp.raise_for_status(); return await resp.json()
JsonOrRaise(http, resp) ==
    IF resp.status >= 400 THEN Raised(http, ErrText(resp)) ELSE Returned(http, resp.body)

search(query, up) ==
    JsonOrRaise(<<Http("search", <<>>, 0, Strip(query))>>, up.search)

create_request(media_id, media_type, up) ==
    JsonOrRaise(<<Http("create_request", media_type, media_id, <<>>)>>, up.create)

approve_request(request_id, up) ==
    JsonOrRaise(<<Http("approve_request", <<>>, request_id, <<>>)>>, up.approve)

get_movie_details(tmdb_id, up) ==
    JsonOrRaise(<<Http("details", MOVIE, tmdb_id, <<>>)>>, up.details[tmdb_id])

get_tv_details(tmdb_id, up) ==
    JsonOrRaise(<<Http("details", TV, tmdb_id, <<>>)>>, up.details[tmdb_id])

get_details(media_type, tmdb_id, up) ==
    IF media_type = MOVIE THEN get_movie_details(tmdb_id, up)
    ELSE IF media_type = TV THEN get_tv_details(tmdb_id, up)
    ELSE Returned(<<>>, JObj(<<>>))

\* a ratings call without the 404 case
get_ratings_strict(media_type, tmdb_id, up) ==
    JsonOrRaise(<<Http("ratings", IF media_type = MOVIE THEN MOVIE ELSE TV, tmdb_id, <<>>)>>,
                up.ratings[tmdb_id])

get_ratings(media_type, tmdb_id, up) ==
    LET mt == IF media_type = MOVIE THEN MOVIE ELSE TV
        http == <<Http("ratings", mt, tmdb_id, <<>>)>>
        resp == up.ratings[tmdb_id]
    IN  IF resp.status = 404 THEN Returned(http, JObj(<<>>))
        ELSE JsonOrRaise(http, resp)

get_tv_recommendations(tv_id, up) ==
    LET http == <<Http("recommendations", TV, tv_id, <<>>)>>
    IN  IF up.recs.status = 404 THEN Returned(http, JObj([results |-> JList(<<>>)]))
        ELSE JsonOrRaise(http, up.recs)

get_movie_recommendations(movie_id, up) ==
    LET http == <<Http("recommendations", MOVIE, movie_id, <<>>)>>
    IN  IF up.recs.status = 404 THEN Returned(http, JObj([results |-> JList(<<>>)]))
        ELSE JsonOrRaise(http, up.recs)

(***************************************************************************)
(* The client's session.  The sessions the client created are numbered in  *)
(* the order of their creation; _session is the number of the one the      *)
(* client holds, 0 for None.  _get_session has no await between its test   *)
(* and its assignment: it is one step.                                     *)
(***************************************************************************)
\* OverseerrClient(base_url, api_key): no session is passed in
OverseerrClient == [_session |-> 0, sessions |-> <<>>]

\* self._session and not self._session.closed
SessionOpen(c) == c._session # 0 /\ ~c.sessions[c._session].closed

\* aiohttp.ClientSession(...)
ClientSession == [closed |-> FALSE]

\* a client that opens a session at every use
_get_session_always_new(c) ==
    [c EXCEPT !.sessions = Append(@, ClientSession), !._session = Len(c.sessions) + 1]

_get_session(c) ==
    IF SessionOpen(c) THEN c
    ELSE [c EXCEPT !.sessions = Append(@, ClientSession), !._session = Len(c.sessions) + 1]

\* session.close() has marked session i closed
SessionClosed(c, i) == [c EXCEPT !.sessions[i].closed = TRUE]

(***************************************************************************)
(* State.                                                                  *)
(***************************************************************************)
VARIABLES
    owner,    \* config.OWNER_TELEGRAM_USER_ID: None or a string
    pc,       \* "idle": waiting for an update; "handled": a handler has returned
    update,   \* the update of the current turn
    up,       \* the upstream's answers during the current turn
    tg,       \* the chat platform's behaviour during the current turn
    trace,    \* the effects of the current turn, in order
    raised,   \* whether the handler ended by an exception it did not catch
    buttons,  \* whether the tapped message still shows its inline keyboard
    shaped,   \* the last item shaped into a card, with what was derived from it
    client,   \* the OverseerrClient: its _session and the sessions it created
    turns,    \* the in-flight calls of the client: an operation or a close
    taps      \* the Download taps on one message: waiting, and what they led to

vars == <<owner, pc, update, up, tg, trace, raised, buttons, shaped, client, turns, taps>>

(***************************************************************************)
(* bot.py: the access guard and the handlers.  A handler's result is       *)
(* [trace, raised]: its effects and whether an exception escaped it.       *)
(***************************************************************************)
Done(effects) == [trace |-> effects, raised |-> FALSE]
Escaped(effects) == [trace |-> effects, raised |-> TRUE]

\* a guard that lets every caller through
_is_owner_anyone(u) == TRUE

_is_owner(u) ==
    IF ~Truthy(owner) THEN TRUE
    ELSE IF ~ParseInt(owner.v).ok THEN FALSE
    ELSE u.user.t = "int" /\ u.user.v = ParseInt(owner.v).val

start(u) ==
    IF ~_is_owner(u)
    THEN Done(<<reply_text(<<"This bot is restricted to the owner.">>, NoMarkup)>>)
    ELSE Done(<<reply_text(<<"Send a movie or TV title.">>, NoMarkup)>>)

\* the cards shown at most per search or recommendations list
MaxCards == 10

\* a slice that does not cut
TakeAll(list, n) == list

\* list[:n]
Take(list, n) == SubSeq(list, 1, IF Len(list) < n THEN Len(list) ELSE n)

\* int(item["id"])
ItemId(item) == Get(item, "id").v

\* an enrichment under a single try: a failure of the ratings call discards
\* the details as well
enrich_all_or_nothing(media_type, item, u) ==
    IF Get(item, "id").t = "null" THEN [http |-> <<>>, details |-> JObj(<<>>)]
    ELSE
    LET d == get_details(media_type, ItemId(item), u)
        r == get_ratings(media_type, ItemId(item), u)
    IN  IF d.raised THEN [http |-> d.http, details |-> JObj(<<>>)]
        ELSE IF r.raised THEN [http |-> d.http \o r.http, details |-> JObj(<<>>)]
        ELSE IF IsDict(r.value) /\ Truthy(r.value)
             THEN [http |-> d.http \o r.http,
                   details |-> JObj(("ratings" :> r.value) @@ d.value.v)]
        ELSE [http |-> d.http \o r.http, details |-> d.value]

\* the enrichment of one item: details merged with ratings; any failure of
\* the details call leaves {}, a failure of the ratings call leaves the
\* details as fetched
enrich(media_type, item, u) ==
    IF Get(item, "id").t = "null" THEN [http |-> <<>>, details |-> JObj(<<>>)]
    ELSE
    LET d == get_details(media_type, ItemId(item), u)
        r == get_ratings(media_type, ItemId(item), u)
        existing == Get(d.value, "ratings")
        merged == IF IsDict(existing)
                  THEN JObj(("ratings" :> JObj(r.value.v @@ existing.v)) @@ d.value.v)
                  ELSE JObj(("ratings" :> r.value) @@ d.value.v)
    IN  IF d.raised THEN [http |-> d.http, details |-> JObj(<<>>)]
        ELSE IF r.raised THEN [http |-> d.http \o r.http, details |-> d.value]
        ELSE IF IsDict(r.value) /\ Truthy(r.value)
             THEN [http |-> d.http \o r.http, details |-> merged]
        ELSE [http |-> d.http \o r.http, details |-> d.value]

\* the image base of config.TMDB_IMAGE_BASE
TMDB_IMAGE_BASE == "https://image.tmdb.org/t/p/w500"

\* reply_photo when the item has a poster, with the text fallback when the
\* platform refuses the photo; reply_text otherwise
send_card(item, caption, keyboard, platform) ==
    LET poster_path == PyOr(Get(item, "posterPath"), Get(item, "poster_path"))
        url == TMDB_IMAGE_BASE \o Join(PyStr(poster_path))
    IN  IF Truthy(poster_path)
        THEN IF platform.photo_ok
             THEN <<reply_photo(TRUE, url, caption, keyboard)>>
             ELSE <<reply_photo(FALSE, url, caption, keyboard), reply_text(caption, keyboard)>>
        ELSE <<reply_text(caption, keyboard)>>

\* one iteration of the card loop: enrichment, caption, keyboard, delivery
card(media_type, item, kb_item, u, platform) ==
    The({
    LET base_caption == _build_caption(item)
        caption == IF Truthy(en.details)
                   THEN _append_enrichment_to_caption(base_caption, en.details)
                   ELSE base_caption
    IN  en.http \o send_card(item, caption, _build_keyboard(kb_item), platform)
    : en \in {enrich(media_type, item, u)}})

\* for item in filtered[:10]: ...
RECURSIVE query_cards(_, _, _)
query_cards(items, u, platform) ==
    IF items = <<>> THEN <<>>
    ELSE card(item_media_type(Head(items)).v, Head(items), Head(items), u, platform)
         \o query_cards(Tail(items), u, platform)

\* the movie/tv results, or all of them when there is none
filter_results(results) ==
    LET filtered == SelectSeq(results,
                        LAMBDA r : LET mt == PyOr(Get(r, "mediaType"), Get(r, "media_type"))
                                   IN  IsStr(mt) /\ mt.v \in {MOVIE, TV})
    IN  IF filtered = <<>> THEN results ELSE filtered

\* the text of the message taken as it came
query_unstripped(upd) == IF Truthy(upd.text) THEN upd.text.v ELSE <<>>

\* (update.effective_message.text or "").strip()
query_of(upd) == Strip(IF Truthy(upd.text) THEN upd.text.v ELSE <<>>)

\* a search handler that searches again when the search fails
on_query_retrying(upd, u, platform) ==
    LET query == query_of(upd)
        s == search(query, u)
        results == LET rs == PyOr(Get(s.value, "results"), JList(<<>>)) IN rs.v
        filtered == filter_results(results)
    IN  IF ~_is_owner(upd) THEN Done(<<>>)
        ELSE IF query = <<>>
             THEN Done(<<reply_text(<<"Empty query. Please enter a title.">>, NoMarkup)>>)
        ELSE IF s.raised
             THEN Done(s.http \o s.http
                       \o <<reply_text(<<"Overseerr search error: " \o s.err>>, NoMarkup)>>)
        ELSE IF results = <<>>
             THEN Done(s.http \o <<reply_text(<<"No results found.">>, NoMarkup)>>)
        ELSE The({Done(s.http \o query_cards(shown, u, platform)) :
                    shown \in {Take(filtered, MaxCards)}})

on_query(upd, u, platform) ==
    LET query == query_of(upd)
        s == search(query, u)
        results == LET rs == PyOr(Get(s.value, "results"), JList(<<>>)) IN rs.v
        filtered == filter_results(results)
    IN  IF ~_is_owner(upd) THEN Done(<<>>)
        ELSE IF query = <<>>
             THEN Done(<<reply_text(<<"Empty query. Please enter a title.">>, NoMarkup)>>)
        ELSE IF s.raised
             THEN Done(s.http \o <<reply_text(<<"Overseerr search error: " \o s.err>>, NoMarkup)>>)
        ELSE IF results = <<>>
             THEN Done(s.http \o <<reply_text(<<"No results found.">>, NoMarkup)>>)
        ELSE The({Done(s.http \o query_cards(shown, u, platform)) :
                    shown \in {Take(filtered, MaxCards)}})

\* for rec_item in rec_results[:10]: ... ; the keyboard is built from
\* {**rec_item, "mediaType": media_type}
RECURSIVE rec_cards(_, _, _, _)
rec_cards(items, media_type, u, platform) ==
    IF items = <<>> THEN <<>>
    ELSE card(media_type, Head(items),
              JObj(("mediaType" :> JStr(media_type)) @@ Head(items).v), u, platform)
         \o rec_cards(Tail(items), media_type, u, platform)

\* the "rec|" branch of on_callback, after query.answer()
recommendations(media_type, media_id_str, u, platform) ==
    LET rec_id == ParseInt(media_id_str)
        rec == IF media_type = TV THEN get_tv_recommendations(rec_id.val, u)
               ELSE get_movie_recommendations(rec_id.val, u)
        rec_results == LET rs == PyOr(Get(rec.value, "results"), JList(<<>>)) IN rs.v
    IN  IF ~rec_id.ok THEN <<reply_text(<<"Invalid identifier.">>, NoMarkup)>>
        ELSE IF rec.raised
             THEN rec.http \o <<reply_text(<<"Recommendations error: " \o rec.err>>, NoMarkup)>>
        ELSE IF rec_results = <<>>
             THEN rec.http \o <<reply_text(<<"No recommendations found.">>, NoMarkup)>>
        ELSE The({rec.http \o rec_cards(shown, media_type, u, platform) :
                    shown \in {Take(rec_results, MaxCards)}})

\* the request id read at the top level only
request_id_top_only(created) ==
    IF ~IsDict(created) THEN JNull ELSE Get(created, "id")

\* (created.get("id") or created.get("request", {}).get("id")) when created
\* is a dict, else None
request_id_of(created) ==
    IF ~IsDict(created) THEN JNull
    ELSE PyOr(Get(created, "id"),
              Get(IF "request" \in DOMAIN created.v THEN created.v["request"] ELSE JObj(<<>>),
                  "id"))

\* str(e) of the error the platform raises when it refuses an edit
EditErrText == "Message is not modified"

\* an error report that also removes the buttons of the tapped message
request_error_clearing(effects, err) ==
    Done(effects \o <<edit_message_reply_markup(TRUE),
                      reply_text(<<"Request error: " \o err>>, NoMarkup)>>)

\* except Exception as e: ... reply_text(f"Request error: {e}")
request_error(effects, err) ==
    Done(effects \o <<reply_text(<<"Request error: " \o err>>, NoMarkup)>>)

\* the "req|" branch of on_callback, after query.answer()
request(media_type, media_id_str, u, platform) ==
    LET media_id == ParseInt(media_id_str)
        created == create_request(media_id.val, media_type, u)
        request_id == request_id_of(created.value)
        approved == IF request_id.t # "null"
                    THEN approve_request(request_id.v, u).http ELSE <<>>
    IN  IF ~media_id.ok
        THEN IF platform.edit_ok
             THEN Done(<<edit_message_reply_markup(TRUE),
                         reply_text(<<"Invalid identifier.">>, NoMarkup)>>)
             ELSE Escaped(<<edit_message_reply_markup(FALSE)>>)
        ELSE IF created.raised
             THEN request_error(created.http, created.err)
        ELSE IF platform.edit_ok
             THEN Done(created.http \o approved
                       \o <<edit_message_reply_markup(TRUE),
                            reply_text(<<"Request submitted and approved [check]">>, NoMarkup)>>)
        ELSE request_error(created.http \o approved \o <<edit_message_reply_markup(FALSE)>>,
                           EditErrText)

\* if not _is_owner(update): await update.callback_query.answer(); return
\* an unauthorized tap answered like an unauthorized start command
unauthorized_tap_refused ==
    Done(<<answer, reply_text(<<"This bot is restricted to the owner.">>, NoMarkup)>>)

unauthorized_tap == Done(<<answer>>)

on_callback(upd, u, platform) ==
    LET data == IF Truthy(upd.data) THEN upd.data.v ELSE <<>>
        parts == Split(data, "|", 2)
    IN  IF ~_is_owner(upd) THEN unauthorized_tap
        ELSE IF StartsWith(data, REQ) \/ StartsWith(data, REC)
             THEN IF Len(parts) # 3 THEN Escaped(<<answer>>)
                  ELSE IF StartsWith(data, REQ)
                       THEN LET r == request(parts[2], parts[3], u, platform)
                            IN  [r EXCEPT !.trace = <<answer>> \o @]
                  ELSE Done(<<answer>> \o recommendations(parts[2], parts[3], u, platform))
        ELSE Done(<<answer>>)

(***************************************************************************)
(* The updates, and the collaborators' behaviour, of a turn.               *)
(***************************************************************************)
Users == {1, 2}
Owners == {JNull, JStr(<<"1">>), JStr(<<"x">>)}
Texts == {<<" ">>, <<" ", "\n">>, <<" ", "d", "u", "n", "e", " ">>}
Statuses == {200, 404, 500}
Ids == {1, 2}

Tokens ==
    {JNull,
     JStr(<<"n", "o", "o", "p">>),
     JStr(REQ \o MOVIE),
     JStr(REQ \o MOVIE \o <<"|", "7">>),
     JStr(REQ \o TV \o <<"|", " ", "7">>),
     JStr(REQ \o MOVIE \o <<"|", "n", "o", "t", "a", "n", "u", "m", "b", "e", "r">>),
     JStr(REQ \o MOVIE \o <<"|", "7", "|", "8">>),
     JStr(REC \o MOVIE \o <<"|", "7">>),
     JStr(REC \o TV \o <<"|", "7">>),
     JStr(REC \o TV \o <<"|", "x">>)}

Update(kind, user, text, data) ==
    [kind |-> kind, user |-> JInt(user), text |-> text, data |-> data]

\* the i-th catalog item of a search or recommendations answer
Item(media_type, id, poster, i) ==
    JObj(("title" :> JStr(<<"D", "u", "n", "e", " ">> \o IntStr(i)))
         @@ ("releaseDate" :> JStr(<<"2", "0", "2", "1", "-", "1", "0">>))
         @@ Opt(media_type # <<>>, "mediaType", JStr(media_type))
         @@ Opt(id # 0, "id", JInt(id))
         @@ Opt(poster, "posterPath", JStr(<<"/", "p", ".", "j", "p", "g">>)))

\* a details payload: an IMDb id, a nested IMDb rating and a trailer
DetailsBody ==
    JObj([externalIds |-> JObj([imdbId |-> JStr(<<"t", "t", "1">>)]),
          ratings |-> JObj([imdb |-> JObj([value |-> JStr(<<"7", ".", "5">>)])]),
          relatedVideos |-> JList(<<JObj([site |-> JStr(YOUTUBE), type |-> JStr(TRAILER),
                                          url |-> JStr(<<"https://youtu.be/t">>)])>>)])

\* the flat object of the ratings endpoint
RatingsBody == JObj([criticsScore |-> JInt(85), audienceScore |-> JInt(70)])

Resp(status, body) == [status |-> status, body |-> IF status = 200 THEN body ELSE JNull]


MediaTypes == {MOVIE, TV, PERSON, <<>>}

\* an upstream that is never asked, a platform that is never refused
NoUp == [search |-> Resp(200, JObj(<<>>)), recs |-> Resp(200, JObj(<<>>)),
         create |-> Resp(200, JObj(<<>>)), approve |-> Resp(200, JObj(<<>>)),
         details |-> [i \in Ids |-> Resp(200, DetailsBody)],
         ratings |-> [i \in Ids |-> Resp(200, RatingsBody)]]
NoTg == [photo_ok |-> TRUE, edit_ok |-> TRUE]

\* an item of the list with the answers to its enrichment calls: none is
\* drawn for an item without id, and a ratings answer is drawn only when
\* the details call succeeds
Entries(id) ==
    {[media_type |-> m, id |-> 0, details |-> 200, ratings |-> 200] : m \in MediaTypes}
    \cup {[media_type |-> m, id |-> id, details |-> d, ratings |-> 200] :
            m \in MediaTypes, d \in Statuses}
    \cup {[media_type |-> m, id |-> id, details |-> 200, ratings |-> r] :
            m \in MediaTypes, r \in Statuses}

\* whether the items carry a poster, and whether the platform accepts it
Posters ==
    {[poster |-> FALSE, photo_ok |-> TRUE],
     [poster |-> TRUE, photo_ok |-> TRUE],
     [poster |-> TRUE, photo_ok |-> FALSE]}

\* a result list of n items (a and b alternating) with the answers to its
\* enrichment calls
Listing(a, b, p, n) ==
    [results |-> [i \in 1..n |-> IF i % 2 = 1 THEN Item(a.media_type, a.id, p.poster, i)
                                  ELSE Item(b.media_type, b.id, p.poster, i)],
     details |-> (1 :> Resp(a.details, DetailsBody)) @@ (2 :> Resp(b.details, DetailsBody)),
     ratings |-> (1 :> Resp(a.ratings, RatingsBody)) @@ (2 :> Resp(b.ratings, RatingsBody)),
     photo_ok |-> p.photo_ok]

\* the entries with an id whose enrichment calls succeed
Enriched(id) == {e \in Entries(id) : e.id # 0 /\ e.details = 200 /\ e.ratings = 200}

\* the non-empty result lists: short ones with every answer to the
\* enrichment calls, and lists at and above the cap on cards whose
\* enrichment calls succeed
Listings ==
    {Listing(a, b, p, n) : a \in Entries(1), b \in Entries(2), p \in Posters, n \in 1..MaxShort}
    \cup {Listing(a, b, p, n) :
            a \in Enriched(1), b \in Enriched(2), p \in Posters, n \in MaxCards..MaxResults}

\* the upstream and the platform of a turn that shows listing l
ListingUp(l) == [NoUp EXCEPT !.details = l.details, !.ratings = l.ratings]
ListingTg(l) == [NoTg EXCEPT !.photo_ok = l.photo_ok]
Results(l) == JObj([results |-> JList(l.results)])

\* the collaborators of a search turn: an error, an answer without
\* results, a listing
SearchTurns ==
    {[up |-> [NoUp EXCEPT !.search = Resp(s, JNull)], tg |-> NoTg] : s \in Statuses \ {200}}
    \cup {[up |-> [NoUp EXCEPT !.search = Resp(200, b)], tg |-> NoTg] :
            b \in {JObj(<<>>), JObj([results |-> JList(<<>>)])}}
    \cup {[up |-> [ListingUp(l) EXCEPT !.search = Resp(200, Results(l))], tg |-> ListingTg(l)] :
            l \in Listings}

\* the collaborators of a recommendations turn
RecTurns ==
    {[up |-> [NoUp EXCEPT !.recs = Resp(s, JNull)], tg |-> NoTg] : s \in Statuses \ {200}}
    \cup {[up |-> [NoUp EXCEPT !.recs = Resp(200, JObj(<<>>))], tg |-> NoTg]}
    \cup {[up |-> [ListingUp(l) EXCEPT !.recs = Resp(200, Results(l))], tg |-> ListingTg(l)] :
            l \in Listings}

\* the answers to createRequest: an error, or a record with its id at the
\* top level, nested under "request", at both places or nowhere
Created ==
    {Resp(s, JNull) : s \in Statuses \ {200}}
    \cup {Resp(200, JObj(Opt(top # 0, "id", JInt(top))
                         @@ Opt(nested >= 0, "request",
                                JObj(Opt(nested > 0, "id", JInt(nested)))))) :
            top \in {0, 31}, nested \in {-1, 0, 32}}

\* the collaborators of a Download turn
RequestTurns ==
    {[up |-> [NoUp EXCEPT !.create = c, !.approve = Resp(a, JObj([id |-> JInt(31)]))],
      tg |-> [NoTg EXCEPT !.edit_ok = ok]] :
        c \in Created, a \in Statuses, ok \in BOOLEAN}

\* nothing has been shaped yet
NotShaped == [item |-> JNull]

\* the calls that may be in flight at once, and the sessions a run may create
MaxTurns == 3
MaxSessions == 3
Turns == 1..MaxTurns
NoTurn == [pc |-> "idle", held |-> 0]

\* the taps a user may make on one message
MaxTaps == 3
\* no tap yet: none waiting, no request created, none issued after that
NoTaps == [waiting |-> 0, made |-> 0, created |-> FALSE, later |-> 0]

(***************************************************************************)
(* The turns.                                                              *)
(***************************************************************************)
Init ==
    /\ owner \in Owners
    /\ pc = "idle"
    /\ update = Update("none", 0, JNull, JNull)
    /\ up = NoUp
    /\ tg = NoTg
    /\ trace = <<>>
    /\ raised = FALSE
    /\ buttons = TRUE
    /\ shaped = NotShaped
    /\ client = OverseerrClient
    /\ turns = [t \in Turns |-> NoTurn]
    /\ taps = NoTaps

\* the handler's result becomes the turn's outcome; a successful edit
\* removes the tapped message's keyboard
Handled(upd, u, platform, r) ==
    /\ pc' = "handled"
    /\ update' = upd
    /\ up' = u
    /\ tg' = platform
    /\ trace' = r.trace
    /\ raised' = r.raised
    /\ buttons' = ~(\E i \in 1..Len(r.trace) :
                        r.trace[i].e = "edit_message_reply_markup" /\ r.trace[i].ok)
    /\ UNCHANGED <<owner, shaped, client, turns, taps>>

\* CommandHandler("start", start)
Start ==
    /\ pc = "idle"
    /\ \E user \in Users :
        LET upd == Update("start", user, JStr(<<"/", "s", "t", "a", "r", "t">>), JNull)
        IN  \E r \in {start(upd)} : Handled(upd, NoUp, NoTg, r)

\* MessageHandler(filters.TEXT & ~filters.COMMAND, on_query); the
\* collaborators of the turn are drawn when the handler reaches them
Query ==
    /\ pc = "idle"
    /\ \E user \in Users, text \in Texts :
        LET upd == Update("text", user, JStr(text), JNull)
        IN  IF ~_is_owner(upd) \/ query_of(upd) = <<>>
            THEN \E r \in {on_query(upd, NoUp, NoTg)} : Handled(upd, NoUp, NoTg, r)
            ELSE \E t \in SearchTurns :
                    \E r \in {on_query(upd, t.up, t.tg)} : Handled(upd, t.up, t.tg, r)

\* CallbackQueryHandler(on_callback)
Callback ==
    /\ pc = "idle"
    /\ \E user \in Users, data \in Tokens :
        LET upd == Update("tap", user, JNull, data)
            chars == IF Truthy(data) THEN data.v ELSE <<>>
            parsed == Len(Split(chars, "|", 2)) = 3 /\ ParseInt(Split(chars, "|", 2)[3]).ok
        IN  IF _is_owner(upd) /\ parsed /\ StartsWith(chars, REC)
            THEN \E t \in RecTurns :
                    \E r \in {on_callback(upd, t.up, t.tg)} : Handled(upd, t.up, t.tg, r)
            ELSE IF _is_owner(upd) /\ StartsWith(chars, REQ)
            THEN \E t \in RequestTurns :
                    \E r \in {on_callback(upd, t.up, t.tg)} : Handled(upd, t.up, t.tg, r)
            ELSE \E r \in {on_callback(upd, NoUp, NoTg)} : Handled(upd, NoUp, NoTg, r)

\* the dispatcher takes the next update
NextUpdate ==
    /\ pc = "handled"
    /\ pc' = "idle"
    /\ update' = Update("none", 0, JNull, JNull)
    /\ up' = NoUp
    /\ tg' = NoTg
    /\ trace' = <<>>
    /\ raised' = FALSE
    /\ buttons' = TRUE
    /\ UNCHANGED <<owner, shaped, client, turns, taps>>

Next == Start \/ Query \/ Callback \/ NextUpdate

Spec == Init /\ [][Next]_vars

(***************************************************************************)
(* The normalizer on its own: a catalog item and a details payload are     *)
(* drawn, then the pure functions of the card loop are applied to them,    *)
(* first those of the item, then those of the details.  mediaInfo is an    *)
(* object, null or absent, as the upstream sends it; its status takes      *)
(* every JSON shape.                                                       *)
(***************************************************************************)
StatusShapes ==
    {JNull, JStr(<<>>),
     JStr(<<"a", "v", "a", "i", "l", "a", "b", "l", "e">>),
     JStr(AVAILABLE),
     JStr(<<"A", "v", "a", "i", "l", "a", "b", "l", "e">>),
     JStr(<<"p", "e", "n", "d", "i", "n", "g">>),
     JInt(-1), JInt(0), JInt(3), JInt(4), JInt(5),
     JList(<<>>), JList(<<JInt(5)>>), JObj(<<>>)}

MediaInfos ==
    {<<>>, "mediaInfo" :> JNull, "mediaInfo" :> JObj(<<>>)}
    \cup {"mediaInfo" :> JObj("status" :> st) : st \in StatusShapes}

CatalogItems ==
    {JObj(("title" :> JStr(<<"D", "u", "n", "e">>))
          @@ ("releaseDate" :> JStr(<<"2", "0", "2", "1", "-", "1", "0">>))
          @@ Opt(m # <<>>, "mediaType", JStr(m))
          @@ Opt(id # 0, "id", JInt(id))
          @@ info) :
        m \in MediaTypes, id \in {0, 7}, info \in MediaInfos}

\* the keys of ks with their values in vals
Keyed(ks, vals) == [k \in ks |-> vals[k]]

\* the blocks of a nested ratings object
ImdbValues == [value |-> JStr(<<"7", ".", "5">>), rating |-> JInt(8), score |-> JInt(9)]
ImdbBlocks ==
    {JObj(Keyed(ks, ImdbValues)) : ks \in (SUBSET {"value", "rating", "score"}) \ {{}}}
    \cup {JObj("url" :> JStr(<<"h", "t", "t", "p", ":", "/", "/", "i", "/", "t", "t", "2", "/">>))}
ScoreValues == [score |-> JInt(90), rating |-> JInt(80), value |-> JInt(70)]
ScoreBlocks ==
    {JObj(Keyed(ks, ScoreValues)) : ks \in (SUBSET {"score", "rating", "value"}) \ {{}}}
    \cup {JObj([score |-> JInt(0), rating |-> JInt(80)]),
          JObj("url" :> JStr(<<"https://rt/m">>))}
NestedRatings ==
    {JObj("imdb" :> b) : b \in ImdbBlocks}
    \cup {JObj("rottenTomatoes" :> JObj("critics" :> b)) : b \in ScoreBlocks}
    \cup {JObj("rottenTomatoes" :> JObj("audience" :> b)) : b \in ScoreBlocks}
    \cup {JObj([imdb |-> JObj([value |-> JStr(<<"7", ".", "5">>)]),
                rottenTomatoes |-> JObj([critics |-> JObj([score |-> JInt(90)])])])}
FlatRatings == {RatingsBody, JObj([criticsScore |-> JInt(85)]), JObj([audienceScore |-> JInt(70)])}

Trailers ==
    {<<>>,
     "relatedVideos" :> JList(<<JObj([site |-> JStr(YOUTUBE), type |-> JStr(TRAILER),
                                      url |-> JStr(<<"https://youtu.be/t">>)])>>)}
ExternalIds == {<<>>, "externalIds" :> JObj([imdbId |-> JStr(<<"t", "t", "1">>)])}

\* the details of an item after the ratings are merged in: {} when a call
\* failed, else the title's record with what the upstream knows
DetailsPayloads ==
    {JObj(<<>>)}
    \cup {JObj(("id" :> JInt(7)) @@ ext @@ rt @@ tr) :
            ext \in ExternalIds,
            rt \in {<<>>} \cup {"ratings" :> r : r \in FlatRatings \cup NestedRatings},
            tr \in Trailers}

NoRates == [imdb_id |-> JNull, imdb_rating |-> JNull, imdb_url |-> JNull,
            rt_tomato |-> JNull, rt_popcorn |-> JNull, rt_url |-> JNull]

Drawn(item, details) ==
    [item |-> item, details |-> details, step |-> "drawn",
     available |-> FALSE, base_caption |-> <<>>, keyboard |-> NoMarkup,
     rates |-> NoRates, caption |-> <<>>]

NormalizerInit ==
    /\ owner = JNull
    /\ pc = "idle"
    /\ update = Update("none", 0, JNull, JNull)
    /\ up = NoUp
    /\ tg = NoTg
    /\ trace = <<>>
    /\ raised = FALSE
    /\ buttons = TRUE
    /\ shaped \in {Drawn(item, details) : item \in CatalogItems, details \in DetailsPayloads}
    /\ client = OverseerrClient
    /\ turns = [t \in Turns |-> NoTurn]
    /\ taps = NoTaps

\* base_caption = _build_caption(item); kb = _build_keyboard(item)
ShapeItem ==
    /\ shaped.step = "drawn"
    /\ shaped' = [shaped EXCEPT !.step = "item",
                                !.available = _is_available(shaped.item),
                                !.base_caption = _build_caption(shaped.item),
                                !.keyboard = _build_keyboard(shaped.item)]
    /\ UNCHANGED <<owner, pc, update, up, tg, trace, raised, buttons, client, turns, taps>>

\* caption = _append_enrichment_to_caption(base_caption, details) if details
\* else base_caption
ShapeDetails ==
    /\ shaped.step = "item"
    /\ shaped' = [shaped EXCEPT !.step = "card",
                                !.rates = _extract_imdb_and_rt(shaped.details),
                                !.caption =
                                    IF Truthy(shaped.details)
                                    THEN _append_enrichment_to_caption(shaped.base_caption,
                                                                       shaped.details)
                                    ELSE shaped.base_caption]
    /\ UNCHANGED <<owner, pc, update, up, tg, trace, raised, buttons, client, turns, taps>>

NormalizerNext == ShapeItem \/ ShapeDetails

NormalizerSpec == NormalizerInit /\ [][NormalizerNext]_vars

(***************************************************************************)
(* The client under concurrent use: every turn in flight is inside one     *)
(* call of the client, an upstream operation or close(), and the calls     *)
(* interleave at their awaits.  An operation takes its session in one      *)
(* step (session = await self._get_session()) and then waits for the       *)
(* answer; close() tests the session and awaits session.close(), which     *)
(* marks the session closed before or after it suspends.  A close() that   *)
(* finds no open session returns at once and changes nothing.              *)
(***************************************************************************)
SessionInit ==
    /\ owner = JNull
    /\ pc = "idle"
    /\ update = Update("none", 0, JNull, JNull)
    /\ up = NoUp
    /\ tg = NoTg
    /\ trace = <<>>
    /\ raised = FALSE
    /\ buttons = TRUE
    /\ shaped = NotShaped
    /\ client = OverseerrClient
    /\ turns = [t \in Turns |-> NoTurn]
    /\ taps = NoTaps

\* session = await self._get_session(), then the request is sent
Operation(t) ==
    /\ turns[t].pc = "idle"
    /\ \E c \in {_get_session(client)} :
        /\ Len(c.sessions) <= MaxSessions
        /\ client' = c
        /\ turns' = [turns EXCEPT ![t] = [pc |-> "requesting", held |-> c._session]]
    /\ UNCHANGED <<owner, pc, update, up, tg, trace, raised, buttons, shaped, taps>>

\* the answer has arrived: the operation returns or raises
Respond(t) ==
    /\ turns[t].pc = "requesting"
    /\ turns' = [turns EXCEPT ![t] = NoTurn]
    /\ UNCHANGED <<owner, pc, update, up, tg, trace, raised, buttons, shaped, client, taps>>

\* close(): the session is open, session.close() is awaited
Close(t) ==
    /\ turns[t].pc = "idle"
    /\ SessionOpen(client)
    /\ \E early \in BOOLEAN :
        client' = IF early THEN SessionClosed(client, client._session) ELSE client
    /\ turns' = [turns EXCEPT ![t] = [pc |-> "closing", held |-> client._session]]
    /\ UNCHANGED <<owner, pc, update, up, tg, trace, raised, buttons, shaped, taps>>

\* session.close() returns: the session is closed
Closed(t) ==
    /\ turns[t].pc = "closing"
    /\ client' = SessionClosed(client, turns[t].held)
    /\ turns' = [turns EXCEPT ![t] = NoTurn]
    /\ UNCHANGED <<owner, pc, update, up, tg, trace, raised, buttons, shaped, taps>>

SessionNext == \E t \in Turns : Operation(t) \/ Respond(t) \/ Close(t) \/ Closed(t)

SessionSpec == SessionInit /\ [][SessionNext]_vars

(***************************************************************************)
(* The Download taps on one card.  The user may tap the button as long as  *)
(* the message shows it; each tap is an update that waits until the        *)
(* dispatcher takes it, and the updates are handled one after the other    *)
(* (main() does not enable concurrent updates).  on_callback handles a     *)
(* tap from its token alone.                                               *)
(***************************************************************************)
DownloadToken == JStr(REQ \o MOVIE \o <<"|", "7">>)

TapsInit ==
    /\ owner = JStr(<<"1">>)
    /\ pc = "idle"
    /\ update = Update("none", 0, JNull, JNull)
    /\ up = NoUp
    /\ tg = NoTg
    /\ trace = <<>>
    /\ raised = FALSE
    /\ buttons = TRUE
    /\ shaped = NotShaped
    /\ client = OverseerrClient
    /\ turns = [t \in Turns |-> NoTurn]
    /\ taps = NoTaps

\* the createRequest calls among the effects
Creations(effects) == SelectSeq(effects, LAMBDA x : x.e = "http" /\ x.op = "create_request")

\* the user taps Download on the message, which still shows its buttons
Tap ==
    /\ buttons
    /\ taps.made < MaxTaps
    /\ taps' = [taps EXCEPT !.waiting = @ + 1, !.made = @ + 1]
    /\ UNCHANGED <<owner, pc, update, up, tg, trace, raised, buttons, shaped, client, turns>>

\* CallbackQueryHandler(on_callback) on the next waiting tap
HandleTap ==
    /\ pc = "idle"
    /\ taps.waiting > 0
    /\ \E t \in RequestTurns :
        \E r \in {on_callback(Update("tap", 1, JNull, DownloadToken), t.up, t.tg)} :
            /\ pc' = "handled"
            /\ update' = Update("tap", 1, JNull, DownloadToken)
            /\ up' = t.up
            /\ tg' = t.tg
            /\ trace' = r.trace
            /\ raised' = r.raised
            /\ buttons' = (buttons /\ ~(\E i \in 1..Len(r.trace) :
                                r.trace[i].e = "edit_message_reply_markup" /\ r.trace[i].ok))
            /\ taps' = [taps EXCEPT
                            !.waiting = @ - 1,
                            !.created = @ \/ (Creations(r.trace) # <<>> /\ t.up.create.status < 400),
                            !.later = @ + (IF taps.created THEN Len(Creations(r.trace)) ELSE 0)]
    /\ UNCHANGED <<owner, shaped, client, turns>>

\* the dispatcher takes the next update; the message stays as it is
NextTap ==
    /\ pc = "handled"
    /\ pc' = "idle"
    /\ update' = Update("none", 0, JNull, JNull)
    /\ up' = NoUp
    /\ tg' = NoTg
    /\ trace' = <<>>
    /\ raised' = FALSE
    /\ UNCHANGED <<owner, buttons, shaped, client, turns, taps>>

TapsNext == Tap \/ HandleTap \/ NextTap

TapsSpec == TapsInit /\ [][TapsNext]_vars

(***************************************************************************)
(* What a finished turn shows.                                             *)
(***************************************************************************)
Finished == pc = "handled"

\* the requests sent to the upstream, the messages delivered to the chat,
\* the acknowledgements of the tap and the edits of the tapped message
HttpCalls == SelectSeq(trace, LAMBDA x : x.e = "http")
CallsOf(op) == SelectSeq(trace, LAMBDA x : x.e = "http" /\ x.op = op)
Delivered(x) == x.e \in {"reply_text", "reply_photo"} /\ x.ok
MessagesOf(tr) == SelectSeq(tr, Delivered)
Messages == MessagesOf(trace)
Answers == SelectSeq(trace, LAMBDA x : x.e = "answer")
Edits == SelectSeq(trace, LAMBDA x : x.e = "edit_message_reply_markup")
TextsSent == {Messages[i].text : i \in 1..Len(Messages)}

\* position of the first effect of the trace satisfying P, 0 when none
Position(P(_)) ==
    IF \E i \in 1..Len(trace) : P(trace[i])
    THEN CHOOSE i \in 1..Len(trace) : P(trace[i]) /\ \A j \in 1..(i - 1) : ~P(trace[j])
    ELSE 0

Refusal == <<"This bot is restricted to the owner.">>
InvalidIdentifier == <<"Invalid identifier.">>
Submitted == <<"Request submitted and approved [check]">>
RequestErrors == {<<"Request error: " \o e>> : e \in {"HTTP 404", "HTTP 500", EditErrText}}
SearchErrors == {<<"Overseerr search error: " \o e>> : e \in {"HTTP 404", "HTTP 500"}}

\* an owner identifier is configured; the caller is that owner
OwnerConfigured == owner.t = "str" /\ owner.v # <<>>
CallerIsOwner ==
    /\ OwnerConfigured
    /\ ParseInt(owner.v).ok
    /\ update.user = JInt(ParseInt(owner.v).val)
Unauthorized == OwnerConfigured /\ ~CallerIsOwner
Authorized == ~Unauthorized

\* the text of a message is empty or whitespace only
Blank(s) == \A i \in 1..Len(s) : s[i] \in {" ", "\t", "\n"}
StartTurn == Finished /\ update.kind = "start"
TextTurn == Finished /\ update.kind = "text"
TapTurn == Finished /\ update.kind = "tap"
QueryTurn == TextTurn /\ Authorized /\ ~Blank(update.text.v)

\* the fields of a tapped token action|mediaType|id
Fields == IF update.data.t = "str" THEN Split(update.data.v, "|", 2) ELSE <<>>
ActionToken(action) == TapTurn /\ Len(Fields) = 3 /\ Fields[1] = action
WellFormed == Len(Fields) = 3 /\ ParseInt(Fields[3]).ok
DownloadTurn == ActionToken(<<"r", "e", "q">>) /\ Authorized /\ WellFormed
RecommendTurn == ActionToken(<<"r", "e", "c">>) /\ Authorized /\ WellFormed

(***************************************************************************)
(* C1: when an owner is configured, no turn of a caller who is not the     *)
(* owner sends any request to the upstream; when no owner is configured,   *)
(* every caller's turn is processed: the start command is greeted, no      *)
(* refusal is sent, a non-blank text is searched for and a well-formed     *)
(* action token reaches the upstream.                                      *)
(***************************************************************************)
C1_GuardPrecedesUpstream ==
    Finished =>
        /\ Unauthorized => HttpCalls = <<>>
        /\ ~OwnerConfigured =>
            /\ Refusal \notin TextsSent
            /\ update.kind = "start" => TextsSent = {<<"Send a movie or TV title.">>}
            /\ (update.kind = "text" /\ ~Blank(update.text.v)) => Len(CallsOf("search")) = 1
            /\ DownloadTurn => Len(CallsOf("create_request")) = 1
            /\ RecommendTurn => Len(CallsOf("recommendations")) = 1

C1_Witness == TextTurn /\ Unauthorized /\ ~Blank(update.text.v)

(***************************************************************************)
(* C2: when an owner is configured and the caller is not the owner, every  *)
(* text message (the start command or a free-text query) is answered with  *)
(* exactly one refusal message.                                            *)
(***************************************************************************)
C2_EveryTextRefused ==
    ((StartTurn \/ TextTurn) /\ Unauthorized) =>
        (Len(Messages) = 1 /\ Messages[1].text = Refusal)

(***************************************************************************)
(* C3: an unauthorized tap is acknowledged exactly once, and nothing else  *)
(* happens: no message, no edit of the tapped message (its buttons stay),  *)
(* no request to the upstream.                                             *)
(***************************************************************************)
C3_UnauthorizedTapSilent ==
    (TapTurn /\ Unauthorized) =>
        /\ Len(Answers) = 1
        /\ Messages = <<>>
        /\ Edits = <<>>
        /\ HttpCalls = <<>>
        /\ Len(trace) = 1
        /\ buttons
        /\ ~raised

C3_Witness == TapTurn /\ Unauthorized /\ WellFormed /\ Len(Answers) = 1

(***************************************************************************)
(* C4: an authorized tap of a token action|mediaType|id, action req or     *)
(* rec, whose id is no integer sends exactly one "Invalid identifier."     *)
(* message and no request to the upstream.                                 *)
(***************************************************************************)
C4_InvalidIdentifier ==
    ((ActionToken(<<"r", "e", "q">>) \/ ActionToken(<<"r", "e", "c">>))
     /\ Authorized /\ ~ParseInt(Fields[3]).ok) =>
        /\ Len(Messages) = 1
        /\ Messages[1].text = InvalidIdentifier
        /\ HttpCalls = <<>>

\* the upstream's answers to createRequest and approveRequest; the request
\* id the claim names: the top-level id, else the nested request's id
CreateFailed == up.create.status >= 400
ApproveFailed == up.approve.status >= 400
TopId == IF "id" \in DOMAIN up.create.body.v THEN up.create.body.v["id"].v ELSE 0
NestedId ==
    IF "request" \in DOMAIN up.create.body.v /\ "id" \in DOMAIN up.create.body.v["request"].v
    THEN up.create.body.v["request"].v["id"].v ELSE 0
NamedId == IF TopId # 0 THEN TopId ELSE NestedId
IsApprove(x) == x.e = "http" /\ x.op = "approve_request"
IsCreate(x) == x.e = "http" /\ x.op = "create_request"
IsSubmitted(x) == Delivered(x) /\ x.text = Submitted

(***************************************************************************)
(* C5: when createRequest succeeds and approveRequest fails, the turn      *)
(* still ends with the success confirmation, reports no "Request error",   *)
(* and the buttons of the tapped message are removed.                      *)
(***************************************************************************)
C5_ApproveFailureIsSilent ==
    (DownloadTurn /\ ~CreateFailed /\ NamedId # 0 /\ ApproveFailed) =>
        /\ Len(CallsOf("approve_request")) = 1
        /\ Len(Messages) = 1
        /\ Messages[1].text = Submitted
        /\ TextsSent \cap RequestErrors = {}
        /\ ~buttons

(***************************************************************************)
(* C6: when createRequest fails, exactly one "Request error" message is    *)
(* sent, approveRequest is not called, no success confirmation is sent,    *)
(* and the tapped message is not edited: its buttons stay.                 *)
(***************************************************************************)
C6_CreateFailureReported ==
    (DownloadTurn /\ CreateFailed) =>
        /\ Len(CallsOf("create_request")) = 1
        /\ Len(Messages) = 1
        /\ Messages[1].text \in RequestErrors
        /\ CallsOf("approve_request") = <<>>
        /\ Submitted \notin TextsSent
        /\ Edits = <<>>
        /\ buttons
        /\ ~raised

C6_Witness == DownloadTurn /\ CreateFailed /\ Len(Messages) = 1

(***************************************************************************)
(* C7: approveRequest is attempted only after a successful createRequest,  *)
(* at most once, for the id of the newly created request (the top-level    *)
(* id, else the nested request's id), exactly when there is such an id,    *)
(* and before the success confirmation is sent.                            *)
(***************************************************************************)
C7_ApproveFollowsCreate ==
    TapTurn =>
        /\ Len(CallsOf("approve_request")) <= 1
        /\ CallsOf("approve_request") # <<>> =>
            /\ DownloadTurn /\ ~CreateFailed
            /\ Position(IsCreate) # 0 /\ Position(IsCreate) < Position(IsApprove)
            /\ CallsOf("approve_request")[1].id = NamedId
        /\ (DownloadTurn /\ ~CreateFailed) =>
            (CallsOf("approve_request") # <<>> <=> NamedId # 0)
        /\ (Submitted \in TextsSent /\ CallsOf("approve_request") # <<>>) =>
            Position(IsApprove) < Position(IsSubmitted)

C7_Witness ==
    /\ DownloadTurn /\ ~CreateFailed
    /\ TopId = 0 /\ NestedId # 0
    /\ Len(CallsOf("approve_request")) = 1
    /\ Submitted \in TextsSent

(***************************************************************************)
(* C8: an authorized text message that is empty or whitespace only is      *)
(* answered with one "Empty query" message and no request to the upstream; *)
(* a search without results with one "No results found." message after     *)
(* the single search call; a failed search with one search error message   *)
(* after the single search call.                                           *)
(***************************************************************************)
SearchFailed == up.search.status >= 400
SearchResults ==
    IF ~SearchFailed /\ "results" \in DOMAIN up.search.body.v
    THEN up.search.body.v["results"].v ELSE <<>>

C8_TextOutcomes ==
    (TextTurn /\ Authorized) =>
        /\ Blank(update.text.v) =>
            /\ HttpCalls = <<>>
            /\ Len(Messages) = 1
            /\ Messages[1].text = <<"Empty query. Please enter a title.">>
        /\ (~Blank(update.text.v) /\ SearchFailed) =>
            /\ Len(HttpCalls) = 1 /\ HttpCalls[1].op = "search"
            /\ Len(Messages) = 1
            /\ Messages[1].text \in SearchErrors
        /\ (~Blank(update.text.v) /\ ~SearchFailed /\ SearchResults = <<>>) =>
            /\ Len(HttpCalls) = 1 /\ HttpCalls[1].op = "search"
            /\ Len(Messages) = 1
            /\ Messages[1].text = <<"No results found.">>

C8_Witness ==
    /\ QueryTurn /\ ~SearchFailed /\ SearchResults = <<>>
    /\ Len(Messages) = 1

\* the items a listing turn presents: of a search, the first ten of the
\* movie/tv results, or of all results when none is movie/tv; of a
\* recommendations answer, the first ten
FirstTen(list) == SubSeq(list, 1, IF Len(list) < 10 THEN Len(list) ELSE 10)
KindOf(item) == IF "mediaType" \in DOMAIN item.v THEN item.v["mediaType"].v ELSE <<>>
MovieOrTv == SelectSeq(SearchResults, LAMBDA r : KindOf(r) \in {MOVIE, TV})
SearchSource == IF MovieOrTv # <<>> THEN MovieOrTv ELSE SearchResults
SearchListing == QueryTurn /\ SearchResults # <<>>
BaseOf(caption, item) == SubSeq(caption, 1, Len(_build_caption(item))) = _build_caption(item)

(***************************************************************************)
(* C9: a search with results delivers one card per item of the first ten   *)
(* movie/tv results, in the order of the answer, or, when no result is     *)
(* movie/tv, of the first ten results as they came: at most ten cards.     *)
(***************************************************************************)
C9_AtMostTenCards ==
    SearchListing =>
        /\ Len(Messages) <= 10
        /\ Len(Messages) = Len(FirstTen(SearchSource))
        /\ \A k \in 1..Len(Messages) : BaseOf(Messages[k].text, SearchSource[k])
        /\ Len(CallsOf("search")) = 1

C9_Witness ==
    /\ SearchListing
    /\ Len(SearchResults) > 10
    /\ Len(MovieOrTv) = Len(SearchResults)
    /\ Len(Messages) = 10

C9_FallbackWitness ==
    SearchListing /\ MovieOrTv = <<>> /\ Len(Messages) = Len(SearchResults)

\* the enrichment of the k-th presented item: the media type its calls are
\* made for, whether its details call and its ratings call were made, and
\* whether they failed
RecResults ==
    IF up.recs.status = 200 /\ "results" \in DOMAIN up.recs.body.v
    THEN up.recs.body.v["results"].v ELSE <<>>
RecListing == RecommendTurn /\ RecResults # <<>>
Listed == SearchListing \/ RecListing
Presented == IF SearchListing THEN FirstTen(SearchSource) ELSE FirstTen(RecResults)
EnrichedAs(item) ==
    IF RecListing THEN Fields[2] ELSE IF KindOf(item) = <<>> THEN MOVIE ELSE KindOf(item)
HasId(item) == "id" \in DOMAIN item.v
DetailsAsked(item) == HasId(item) /\ EnrichedAs(item) \in {MOVIE, TV}
DetailsFailed(item) == DetailsAsked(item) /\ up.details[item.v["id"].v].status >= 400
RatingsAsked(item) == HasId(item) /\ ~DetailsFailed(item)
RatingsFailed(item) == RatingsAsked(item) /\ up.ratings[item.v["id"].v].status = 500
DetailsOf(item) ==
    IF DetailsAsked(item) /\ ~DetailsFailed(item) THEN up.details[item.v["id"].v].body
    ELSE JObj(<<>>)
FromDetailsAlone(item) ==
    IF Truthy(DetailsOf(item))
    THEN _append_enrichment_to_caption(_build_caption(item), DetailsOf(item))
    ELSE _build_caption(item)

\* the cards of the same turn had the upstream answered the enrichment
\* calls for id i
Repaired(i) ==
    [up EXCEPT !.details[i] = Resp(200, DetailsBody), !.ratings[i] = Resp(200, RatingsBody)]
CardsWith(u) ==
    IF update.kind = "text" THEN MessagesOf(on_query(update, u, tg).trace)
    ELSE MessagesOf(on_callback(update, u, tg).trace)

(***************************************************************************)
(* C10 as stated: when any enrichment call of an item fails, the item is   *)
(* presented with its base caption only.                                   *)
(***************************************************************************)
C10_AnyFailureBaseCaption ==
    Listed =>
        \A k \in 1..Len(Presented) :
            (DetailsFailed(Presented[k]) \/ RatingsFailed(Presented[k])) =>
                (k <= Len(Messages) /\ Messages[k].text = _build_caption(Presented[k]))

(***************************************************************************)
(* C10: every presented item gets its card whatever its enrichment calls   *)
(* answer.  When the details call of an item fails, the card has the base  *)
(* caption only; when only the ratings call fails, the card has the        *)
(* caption enriched from the details alone.  The cards of the other items, *)
(* captions and buttons, are those of the turn in which the calls for the  *)
(* failing item succeed.                                                   *)
(***************************************************************************)
C10_EnrichmentDegrades ==
    Listed =>
        /\ Len(Messages) = Len(Presented)
        /\ \A k \in 1..Len(Presented) :
            /\ DetailsFailed(Presented[k]) =>
                Messages[k].text = _build_caption(Presented[k])
            /\ RatingsFailed(Presented[k]) =>
                Messages[k].text = FromDetailsAlone(Presented[k])
            /\ Messages[k].markup = _build_keyboard(
                    IF RecListing
                    THEN JObj(("mediaType" :> JStr(Fields[2])) @@ Presented[k].v)
                    ELSE Presented[k])
        /\ \A i \in Ids :
            Repaired(i) # up =>
                /\ Len(CardsWith(Repaired(i))) = Len(Messages)
                /\ \A k \in 1..Len(Presented) :
                    (HasId(Presented[k]) /\ Presented[k].v["id"].v = i)
                    \/ CardsWith(Repaired(i))[k] = Messages[k]

C10_Witness ==
    /\ Listed
    /\ Len(Messages) = 2
    /\ RatingsFailed(Presented[1])
    /\ Truthy(DetailsOf(Presented[1]))
    /\ Messages[1].text # _build_caption(Presented[1])
    /\ HasId(Presented[2])
    /\ ~DetailsFailed(Presented[2]) /\ ~RatingsFailed(Presented[2])

\* the answers of the endpoints that know the 404 case
Empty(value) == value.t = "obj" /\ DOMAIN value.v = {}
NoResults(value) ==
    /\ value.t = "obj" /\ DOMAIN value.v = {"results"}
    /\ value.v["results"] = JList(<<>>)
RecsOf(m) == IF m = TV THEN get_tv_recommendations(7, up) ELSE get_movie_recommendations(7, up)

(***************************************************************************)
(* C11: a 404 of the ratings endpoint returns an empty object and a 404    *)
(* of the movie/tv recommendations endpoints returns an empty result list, *)
(* without raising; every other non-success status of these endpoints      *)
(* raises.  A Recommendations tap answered 404 says that there are no      *)
(* recommendations, one answered 500 reports the error.                    *)
(***************************************************************************)
C11_NotFoundIsEmpty ==
    Finished =>
        /\ \A i \in Ids, m \in {MOVIE, TV, PERSON} :
            /\ up.ratings[i].status = 404 =>
                (~get_ratings(m, i, up).raised /\ Empty(get_ratings(m, i, up).value))
            /\ up.ratings[i].status \notin {200, 404} => get_ratings(m, i, up).raised
        /\ \A m \in {MOVIE, TV} :
            /\ up.recs.status = 404 => (~RecsOf(m).raised /\ NoResults(RecsOf(m).value))
            /\ up.recs.status \notin {200, 404} => RecsOf(m).raised
        /\ (RecommendTurn /\ up.recs.status = 404) =>
            (Len(Messages) = 1 /\ Messages[1].text = <<"No recommendations found.">>)
        /\ (RecommendTurn /\ up.recs.status \notin {200, 404}) =>
            (Len(Messages) = 1 /\ Messages[1].text = <<"Recommendations error: HTTP 500">>)

C11_Witness ==
    /\ RecommendTurn /\ up.recs.status = 404
    /\ Len(CallsOf("recommendations")) = 1
    /\ Len(Messages) = 1

C11_RatingsWitness ==
    /\ Listed /\ Len(Presented) >= 1
    /\ RatingsAsked(Presented[1])
    /\ up.ratings[Presented[1].v["id"].v].status = 404
    /\ Len(CallsOf("ratings")) >= 1

(***************************************************************************)
(* C12: a 404 of the details endpoint for a movie or tv id returns an      *)
(* empty object and does not raise.                                        *)
(***************************************************************************)
C12_DetailsNotFoundIsEmpty ==
    Listed =>
        \A k \in 1..Len(Presented) :
            (DetailsAsked(Presented[k]) /\ up.details[Presented[k].v["id"].v].status = 404) =>
                /\ ~get_details(EnrichedAs(Presented[k]), Presented[k].v["id"].v, up).raised
                /\ Empty(get_details(EnrichedAs(Presented[k]), Presented[k].v["id"].v, up).value)

(***************************************************************************)
(* What the normalizer made of the drawn item and details.                 *)
(***************************************************************************)
Shaping == "step" \in DOMAIN shaped
ItemShaped == Shaping /\ shaped.step \in {"item", "card"}
CardShaped == Shaping /\ shaped.step = "card"

\* the item's mediaInfo.status, null when mediaInfo or status is missing
StatusOf(item) ==
    IF "mediaInfo" \in DOMAIN item.v /\ IsDict(item.v["mediaInfo"])
       /\ "status" \in DOMAIN item.v["mediaInfo"].v
    THEN item.v["mediaInfo"].v["status"]
    ELSE JNull

LowerChar(c) ==
    IF \E i \in 1..26 : UpperLetters[i] = c
    THEN LowerLetters[CHOOSE i \in 1..26 : UpperLetters[i] = c]
    ELSE c
SameIgnoringCase(a, b) ==
    Len(a) = Len(b) /\ \A i \in 1..Len(a) : LowerChar(a[i]) = LowerChar(b[i])

StatusAvailable(st) ==
    \/ IsStr(st) /\ SameIgnoringCase(st.v, AVAILABLE)
    \/ IsInt(st) /\ st.v >= 4

(***************************************************************************)
(* C13: availability is a function of mediaInfo.status alone: true iff     *)
(* the status is a string equal to "AVAILABLE" ignoring case or an integer *)
(* >= 4, false for an integer < 4, for a missing mediaInfo or status and   *)
(* for every other shape of the status; it is computed for every item.     *)
(***************************************************************************)
C13_AvailabilityFromStatus ==
    ItemShaped =>
        /\ shaped.available \in BOOLEAN
        /\ shaped.available = StatusAvailable(StatusOf(shaped.item))

C13_Witness ==
    /\ ItemShaped
    /\ StatusOf(shaped.item) = JStr(<<"a", "v", "a", "i", "l", "a", "b", "l", "e">>)
    /\ shaped.available

C13_OtherShapeWitness ==
    /\ ItemShaped
    /\ StatusOf(shaped.item) = JList(<<JInt(5)>>)
    /\ ~shaped.available

\* the buttons of the card's keyboard with the given text
ButtonsOf(keyboard, text) ==
    IF keyboard.rows = <<>> THEN <<>>
    ELSE SelectSeq(keyboard.rows[1], LAMBDA b : b.text = text)
NoActionRow(keyboard) == keyboard.rows = <<>>
OneIff(n, cond) == n = (IF cond THEN 1 ELSE 0)

\* the item's media type, movie when the item names none
MediaTypeOf(item) == IF "mediaType" \in DOMAIN item.v THEN item.v["mediaType"].v ELSE MOVIE
ItemHasId(item) == "id" \in DOMAIN item.v
StatusRecognized(st) == IsStr(st) \/ IsInt(st)

\* the rule of the buttons from availability and media type
ButtonRule(item, keyboard, available) ==
    /\ Len(keyboard.rows) <= 1
    /\ OneIff(Len(ButtonsOf(keyboard, "Download")), ~available)
    /\ OneIff(Len(ButtonsOf(keyboard, "Recommendations")), MediaTypeOf(item) \in {MOVIE, TV})
    /\ NoActionRow(keyboard) <=> (available /\ MediaTypeOf(item) \notin {MOVIE, TV})
    /\ ~StatusRecognized(StatusOf(item)) => Len(ButtonsOf(keyboard, "Download")) = 1

(***************************************************************************)
(* C14, as stated: for every catalog item, with or without id, the card    *)
(* has one Download button iff the item is not available, one              *)
(* Recommendations button iff its media type is movie or tv, no action     *)
(* row iff neither; an item of missing or unrecognized status is offered   *)
(* a Download button.                                                      *)
(***************************************************************************)
C14_ButtonsForEveryItem ==
    ItemShaped => ButtonRule(shaped.item, shaped.keyboard, shaped.available)

(***************************************************************************)
(* C14, amended: the rule of the buttons holds for every catalog item      *)
(* that has an id, and an item with no id gets no action row at all.       *)
(***************************************************************************)
C14_ButtonsForItemsWithId ==
    ItemShaped =>
        IF ItemHasId(shaped.item)
        THEN ButtonRule(shaped.item, shaped.keyboard, shaped.available)
        ELSE NoActionRow(shaped.keyboard)

C14_Witness ==
    /\ ItemShaped /\ ItemHasId(shaped.item)
    /\ StatusOf(shaped.item) = JNull /\ MediaTypeOf(shaped.item) = PERSON
    /\ Len(ButtonsOf(shaped.keyboard, "Download")) = 1
    /\ Len(shaped.keyboard.rows[1]) = 1

C14_NoIdWitness ==
    /\ ItemShaped /\ ~ItemHasId(shaped.item)
    /\ ~shaped.available
    /\ NoActionRow(shaped.keyboard)

C14_NeitherWitness ==
    /\ ItemShaped /\ ItemHasId(shaped.item)
    /\ shaped.available /\ MediaTypeOf(shaped.item) = PERSON
    /\ NoActionRow(shaped.keyboard)

\* the lines a caption is made of, for the drawn items and details
Anchor(url, label) == "<a href=\"" \o url \o "\">" \o label \o "</a>"
TitleLines == {"<b>Dune</b> - (movie)", "<b>Dune</b> - (tv series)"}
AvailabilityLines == {"[check] Status: in library", "[cross] Status: not in library"}
RatingTexts ==
    {Join(PyStr(ImdbValues[k])) : k \in DOMAIN ImdbValues}
    \cup {Join(PyStr(ScoreValues[k])) : k \in DOMAIN ScoreValues}
    \cup {"85", "70", "0", "None"}
RatingLabels ==
    {"IMDb"}
    \cup {"IMDb: " \o t : t \in RatingTexts}
    \cup {"[tomato] Tomatometer : " \o t \o "%" : t \in RatingTexts}
    \cup {"[popcorn] Popcorn: " \o t \o "%" : t \in RatingTexts}
RatingLines ==
    {Anchor(url, label) :
        url \in {"https://www.imdb.com/title/tt1", "https://www.imdb.com/title/tt2",
                 "https://www.rottentomatoes.com/", "https://rt/m"},
        label \in RatingLabels}
TrailerLines == {Anchor("https://youtu.be/t", "[clapper] Trailer")}
HasTrailer(details) == "relatedVideos" \in DOMAIN details.v

\* the positions of the caption's lines of a kind
LinesIn(caption, kind) == {i \in 1..Len(caption) : caption[i] \in kind}

(***************************************************************************)
(* C15: in every caption the title/year/availability block comes first,    *)
(* no rating line (IMDb, Tomatometer, Popcorn) precedes the availability   *)
(* line, and the trailer link, when there is one, is the last line.        *)
(***************************************************************************)
C15_BlockOrder ==
    CardShaped =>
        /\ Len(shaped.caption) >= 4
        /\ shaped.caption[1] \in TitleLines
        /\ shaped.caption[2] = "Year - 2021"
        /\ shaped.caption[3] = ""
        /\ LinesIn(shaped.caption, AvailabilityLines) = {4}
        /\ \A i \in LinesIn(shaped.caption, RatingLines) : i > 4
        /\ \A i \in 5..Len(shaped.caption) :
            shaped.caption[i] \in {""} \cup RatingLines \cup TrailerLines
        /\ LinesIn(shaped.caption, TrailerLines) =
            (IF HasTrailer(shaped.details) THEN {Len(shaped.caption)} ELSE {})

C15_Witness ==
    /\ CardShaped
    /\ HasTrailer(shaped.details)
    /\ Cardinality(LinesIn(shaped.caption, RatingLines)) = 3
    /\ shaped.caption[Len(shaped.caption)] \in TrailerLines

(***************************************************************************)
(* C16: a caption never ends with a blank line and never has two blank     *)
(* lines in a row: a block whose data is absent leaves no line behind.     *)
(***************************************************************************)
C16_NoPlaceholderLines ==
    CardShaped =>
        /\ shaped.caption[Len(shaped.caption)] # ""
        /\ \A i \in 1..(Len(shaped.caption) - 1) :
            ~(shaped.caption[i] = "" /\ shaped.caption[i + 1] = "")

\* the ratings object of the drawn details, {} when there is none
RatingsOf(details) ==
    IF "ratings" \in DOMAIN details.v THEN details.v["ratings"] ELSE JObj(<<>>)
NestedExample ==
    JObj([imdb |-> JObj([value |-> JStr(<<"7", ".", "5">>)]),
          rottenTomatoes |-> JObj([critics |-> JObj([score |-> JInt(90)])])])

(***************************************************************************)
(* C17: the extraction of the ratings answers for each known shape:        *)
(* details without ratings (the empty object among them) give null for     *)
(* every rating field, the flat object {criticsScore: 85, audienceScore:   *)
(* 70} gives rt_tomato "85" and rt_popcorn "70", the nested object         *)
(* {imdb: {value: "7.5"}, rottenTomatoes: {critics: {score: 90}}} gives    *)
(* imdb_rating "7.5" and rt_tomato "90".                                   *)
(***************************************************************************)
C17_KnownShapes ==
    CardShaped =>
        /\ DOMAIN shaped.rates =
            {"imdb_id", "imdb_rating", "imdb_url", "rt_tomato", "rt_popcorn", "rt_url"}
        /\ ~Truthy(RatingsOf(shaped.details)) =>
            /\ shaped.rates.imdb_rating = JNull
            /\ shaped.rates.rt_tomato = JNull
            /\ shaped.rates.rt_popcorn = JNull
        /\ RatingsOf(shaped.details) = RatingsBody =>
            /\ shaped.rates.rt_tomato = JStr(<<"8", "5">>)
            /\ shaped.rates.rt_popcorn = JStr(<<"7", "0">>)
        /\ RatingsOf(shaped.details) = NestedExample =>
            /\ shaped.rates.imdb_rating = JStr(<<"7", ".", "5">>)
            /\ shaped.rates.rt_tomato = JStr(<<"9", "0">>)

C17_Witness ==
    /\ CardShaped
    /\ RatingsOf(shaped.details) = RatingsBody
    /\ shaped.rates.rt_tomato = JStr(<<"8", "5">>)

C17_NestedWitness ==
    /\ CardShaped
    /\ RatingsOf(shaped.details) = NestedExample
    /\ shaped.rates.imdb_rating = JStr(<<"7", ".", "5">>)

C17_EmptyWitness ==
    /\ CardShaped
    /\ shaped.details = JObj(<<>>)
    /\ shaped.rates.rt_popcorn = JNull

\* the block of the nested ratings at the path of keys, null when a key is missing
RECURSIVE BlockAt(_, _)
BlockAt(j, path) ==
    IF path = <<>> THEN j
    ELSE IF IsDict(j) /\ Head(path) \in DOMAIN j.v THEN BlockAt(j.v[Head(path)], Tail(path))
    ELSE JNull

\* str of the value of the first of the keys that the block has, null when
\* it has none of them
RECURSIVE FirstPresent(_, _)
FirstPresent(block, keys) ==
    IF keys = <<>> \/ ~IsDict(block) THEN JNull
    ELSE IF Head(keys) \in DOMAIN block.v THEN JStr(PyStr(block.v[Head(keys)]))
    ELSE FirstPresent(block, Tail(keys))

IsNested(ratings) == DOMAIN ratings.v \cap {"imdb", "rottenTomatoes"} # {}

(***************************************************************************)
(* C18: for a nested ratings payload imdb_rating is the string of the      *)
(* first key present among value, rating, score of ratings.imdb, and       *)
(* rt_tomato / rt_popcorn that of the first key present among score,       *)
(* rating, value of rottenTomatoes.critics / .audience; a field none of    *)
(* whose keys is present is null.                                          *)
(***************************************************************************)
C18_FirstKeyPresent ==
    (CardShaped /\ IsNested(RatingsOf(shaped.details))) =>
        /\ shaped.rates.imdb_rating =
            FirstPresent(BlockAt(RatingsOf(shaped.details), <<"imdb">>),
                         <<"value", "rating", "score">>)
        /\ shaped.rates.rt_tomato =
            FirstPresent(BlockAt(RatingsOf(shaped.details), <<"rottenTomatoes", "critics">>),
                         <<"score", "rating", "value">>)
        /\ shaped.rates.rt_popcorn =
            FirstPresent(BlockAt(RatingsOf(shaped.details), <<"rottenTomatoes", "audience">>),
                         <<"score", "rating", "value">>)

\* the type a card shows: the label of its caption, the media type of its
\* action tokens
TypeLabel(media_type) == IF media_type = MOVIE THEN "movie" ELSE "tv series"
TitleLine(item, media_type) ==
    "<b>" \o Join(item.v["title"].v) \o "</b> - (" \o TypeLabel(media_type) \o ")"
TokensOf(message) ==
    IF message.markup.rows = <<>> THEN {}
    ELSE {message.markup.rows[1][i].callback_data : i \in 1..Len(message.markup.rows[1])}
EnrichmentCalls == SelectSeq(trace, LAMBDA x : x.e = "http" /\ x.op \in {"details", "ratings"})

(***************************************************************************)
(* C19: a Recommendations tap of media type T shows at most ten cards,     *)
(* one per item of the answer, each made from the item tagged with T even  *)
(* when the item names no media type: its action tokens carry T, its       *)
(* enrichment calls use T and the type label of its caption is that of T.  *)
(***************************************************************************)
C19_CardsTaggedWithType ==
    RecListing =>
        /\ Len(Messages) <= 10
        /\ Len(Messages) = Len(Presented)
        /\ \A i \in 1..Len(EnrichmentCalls) : EnrichmentCalls[i].media_type = Fields[2]
        /\ \A k \in 1..Len(Messages) :
            /\ \A token \in TokensOf(Messages[k]) : Split(token, "|", 2)[2] = Fields[2]
            /\ Messages[k].text[1] = TitleLine(Presented[k], Fields[2])

(***************************************************************************)
(* What the client's sessions show.                                        *)
(***************************************************************************)
OpenSessions == {i \in 1..Len(client.sessions) : ~client.sessions[i].closed}
Requesting == {t \in Turns : turns[t].pc = "requesting"}
\* every session created so far was created before the first close began
NeverClosed == OpenSessions = 1..Len(client.sessions) /\ \A t \in Turns : turns[t].pc # "closing"

\* a step that creates a session: an operation of a turn takes it, and no
\* session was open
Creates == Len(client'.sessions) > Len(client.sessions)
CreatedOnFirstUse ==
    /\ OpenSessions = {}
    /\ Len(client'.sessions) = Len(client.sessions) + 1
    /\ client'._session = Len(client'.sessions)
    /\ \E t \in Turns :
        /\ turns[t].pc = "idle"
        /\ turns'[t] = [pc |-> "requesting", held |-> client'._session]
\* a step in which a close() of a turn returns
Returns(t) == turns[t].pc = "closing" /\ turns'[t].pc = "idle"

(***************************************************************************)
(* C20: under every interleaving of operations and close calls the client  *)
(* has at most one open session of its own; a session is created only by   *)
(* an operation that finds no open session (the first use, and the first   *)
(* use after a close); operations in flight together before any close      *)
(* share the one session created; when a close returns, the session that   *)
(* was open is closed.                                                     *)
(***************************************************************************)
C20_SessionLifecycle ==
    /\ [](Cardinality(OpenSessions) <= 1)
    /\ []((NeverClosed /\ Requesting # {}) =>
            (Len(client.sessions) = 1 /\ \A t \in Requesting : turns[t].held = 1))
    /\ [][Creates => CreatedOnFirstUse]_vars
    /\ [][\A t \in Turns : Returns(t) => client'.sessions[turns[t].held].closed]_vars

C20_Witness ==
    /\ Requesting = Turns
    /\ Len(client.sessions) = 1
    /\ \A t \in Turns : turns[t].held = 1
    /\ OpenSessions = {1}

C20_RecreatedWitness ==
    /\ Len(client.sessions) = 2
    /\ OpenSessions = {2}
    /\ client._session = 2
    /\ \E t \in Turns : turns[t] = [pc |-> "requesting", held |-> 2]

\* the ids of the calls of an operation, and of the items of a list
IdsCalled(op) == [i \in 1..Len(CallsOf(op)) |-> CallsOf(op)[i].id]
IdsOf(items) == [i \in 1..Len(items) |-> items[i].v["id"].v]
AtMostOnceIf(op, turn) == Len(CallsOf(op)) <= (IF turn THEN 1 ELSE 0)

(***************************************************************************)
(* C21: a turn issues each upstream operation at most once per target:     *)
(* one search per text message, one createRequest and one approveRequest   *)
(* per Download tap, one recommendations call per Recommendations tap,     *)
(* one details call and one ratings call per presented item, in the order  *)
(* of the items; a call that failed is not issued again.                   *)
(***************************************************************************)
C21_NoRetries ==
    Finished =>
        /\ AtMostOnceIf("search", QueryTurn)
        /\ AtMostOnceIf("create_request", DownloadTurn)
        /\ AtMostOnceIf("approve_request", DownloadTurn)
        /\ AtMostOnceIf("recommendations", RecommendTurn)
        /\ IdsCalled("details") =
            (IF Listed THEN IdsOf(SelectSeq(Presented, DetailsAsked)) ELSE <<>>)
        /\ IdsCalled("ratings") =
            (IF Listed THEN IdsOf(SelectSeq(Presented, RatingsAsked)) ELSE <<>>)
        /\ (QueryTurn /\ SearchFailed) => HttpCalls = CallsOf("search")
        /\ (DownloadTurn /\ CreateFailed) => HttpCalls = CallsOf("create_request")
        /\ (RecommendTurn /\ up.recs.status \notin {200, 404}) =>
            HttpCalls = CallsOf("recommendations")

C21_Witness ==
    /\ Listed /\ Len(Presented) = 2
    /\ DetailsFailed(Presented[1])
    /\ RatingsFailed(Presented[2])
    /\ Len(CallsOf("details")) = 2
    /\ Len(CallsOf("ratings")) = 1

C21_FailedSearchWitness ==
    /\ QueryTurn /\ SearchFailed
    /\ Len(HttpCalls) = 1

C21_FailedCreateWitness ==
    /\ DownloadTurn /\ CreateFailed
    /\ Len(HttpCalls) = 1

(***************************************************************************)
(* C23: after a Download tap a "Request error" message is sent only if     *)
(* createRequest failed and the confirmation only if it succeeded: a       *)
(* refused removal of the buttons after a successful create is not         *)
(* reported as a request error.                                            *)
(***************************************************************************)
C23_OutcomeMatchesUpstream ==
    DownloadTurn =>
        /\ TextsSent \cap RequestErrors # {} => CreateFailed
        /\ Submitted \in TextsSent => ~CreateFailed

(***************************************************************************)
(* C22: whatever the order of the Download taps on a message and of their  *)
(* handling, once a createRequest issued from the message has succeeded    *)
(* no further createRequest is issued for it.                              *)
(***************************************************************************)
C22_NoDuplicateRequest == taps.later = 0
====
